---------------------------- MODULE Spec2Model ----------------------------
(***************************************************************************)
(* ECLAT frequent-itemset mining, as implemented by src/eclat.py (the      *)
(* Full-Capture script, which stores every frequent itemset) and by        *)
(* src/eclat_improved.py (ECLATMiner, the Count-Only miner).               *)
(*                                                                         *)
(* Spec runs the script and then the miner on the same transactions and    *)
(* the same ratio, so that their results can be compared; LiveSpec adds    *)
(* that a run does not stop short.  LoadSpec runs the two file loaders on  *)
(* the same text.                                                          *)
(*                                                                         *)
(* A Python dict is a sequence of <<key, value>> pairs in insertion order; *)
(* a Python list of (item, tidset) tuples is a sequence of pairs; a str is *)
(* a sequence of one-character strings.                                    *)
(***************************************************************************)
EXTENDS Integers, Sequences, FiniteSets, TLC

VARIABLES
    transactions,          \* the dataset: a sequence of token sequences
    ratio_num,             \* the support ratio is ratio_num / RatioDen
    pc,                    \* position of the run
    min_support,           \* eclat.py: min_support
    item_tidset,           \* eclat.py: item_tidset
    script_tid,            \* eclat.py: transactions consumed by the transformation
    eclat_stack,           \* eclat.py: active calls of eclat, root first
    frequent_itemsets,     \* eclat.py: frequent_itemsets (frozenset -> support)
    eclat_log,             \* history: the itemsets stored, in order
    eclat_depth,           \* history: most calls of eclat active at once
    nb_transactions,       \* ECLATMiner.nb_transactions
    min_support_count,     \* ECLATMiner.min_support_count
    nb_frequent_itemsets,  \* ECLATMiner.nb_frequent_itemsets
    tid,                   \* load_dataset: tid (Unbound before the first line)
    mine_item_tidset,      \* load_dataset / mine: item_tidset
    rec_stack,             \* active calls of eclat_recursive, root first
    mine_log,              \* history: the itemset each counter unit stands for
    rec_depth,             \* history: most calls of eclat_recursive active at once
    exit_status,           \* process exit status of the miner (-1: running)
    mine_result,           \* value returned by mine (-1: none)
    text,                  \* LoadSpec: the file, a sequence of lines
    script_tidsets,        \* LoadSpec: result of generate_tidsets_from_dataset
    miner_tidsets,         \* LoadSpec: result of ECLATMiner.load_dataset
    lpc                    \* LoadSpec: position

vars == <<transactions, ratio_num, pc, min_support, item_tidset, script_tid,
          eclat_stack, frequent_itemsets, eclat_log, eclat_depth,
          nb_transactions, min_support_count, nb_frequent_itemsets, tid,
          mine_item_tidset, rec_stack,
          mine_log, rec_depth, exit_status, mine_result,
          text, script_tidsets, miner_tidsets, lpc>>

scriptVars == <<min_support, item_tidset, script_tid, eclat_stack,
                frequent_itemsets, eclat_log, eclat_depth>>
minerVars == <<nb_transactions, min_support_count, nb_frequent_itemsets, tid,
               mine_item_tidset, rec_stack, mine_log, rec_depth, exit_status,
               mine_result>>
loadVars == <<text, script_tidsets, miner_tidsets, lpc>>

-----------------------------------------------------------------------------
(* Bounds of the model *)

MaxTrans == 3          \* most transactions in a dataset
RatioDen == 4          \* ratios are 1/RatioDen .. RatioDen/RatioDen
MaxLines == 2          \* LoadSpec: most lines in a file
MaxLineLen == 3        \* LoadSpec: most characters in a line, terminator aside

ItemOrder == <<"a", "b", "c">>
Items == {ItemOrder[k] : k \in 1..Len(ItemOrder)}

SeqToSet(s) == {s[k] : k \in 1..Len(s)}

Max(S) == CHOOSE x \in S : \A y \in S : y <= x

\* Stands for a Python local that no assignment has bound yet.
Unbound == 0 - 1

\* The tokens of a transaction holding the items of S, written in ItemOrder.
\* Items are opaque to the algorithms, so every dataset is a renaming of one
\* whose transactions are written this way, with the same dict insertion order.
TokensOf(S) == SelectSeq(ItemOrder, LAMBDA x : x \in S)

Datasets == UNION {[1..n -> {TokensOf(S) : S \in SUBSET Items}] : n \in 0..MaxTrans}

-----------------------------------------------------------------------------
(* dicts and lists of (item, tidset) *)

HasKey(d, key) == \E k \in 1..Len(d) : d[k][1] = key

\* item_tidset[item].add(t) on a defaultdict(set)
DictAdd(d, item, t) ==
    IF HasKey(d, item)
    THEN [k \in 1..Len(d) |->
            IF d[k][1] = item THEN <<item, d[k][2] \cup {t}>> ELSE d[k]]
    ELSE Append(d, <<item, {t}>>)

RECURSIVE AddTokens(_, _, _)
AddTokens(d, toks, t) ==
    IF toks = <<>> THEN d
    ELSE AddTokens(DictAdd(d, Head(toks), t), Tail(toks), t)

\* sorted(..., key=lambda x: len(x[1])) and list.sort(key=...): stable.
RECURSIVE InsertBySize(_, _)
InsertBySize(s, e) ==
    IF s = <<>> THEN <<e>>
    ELSE IF Cardinality(Head(s)[2]) <= Cardinality(e[2])
         THEN <<Head(s)>> \o InsertBySize(Tail(s), e)
         ELSE <<e>> \o s

RECURSIVE SortBySize(_)
SortBySize(s) ==
    IF s = <<>> THEN <<>>
    ELSE InsertBySize(SortBySize(SubSeq(s, 1, Len(s) - 1)), s[Len(s)])

\* math.floor(n * ratio) and int(n * ratio), for the ratio num / RatioDen.
\* The product is not negative, where floor and truncation agree.
\* For the ratios and the transaction counts of the model the floating-point
\* product falls on the same side of every integer as the exact one.
SupportCount(n, num) == (n * num) \div RatioDen

-----------------------------------------------------------------------------
(* src/eclat.py *)

\* A slip of | for &.
Union(tidset, other_tidset) == tidset \cup other_tidset

\* tidset & other_tidset
Intersection(tidset, other_tidset) == tidset \cap other_tidset

\* A slip of > for >=.
MoreThan(n, min) == n > min

\* len(...) >= min_support
AtLeast(n, min) == n >= min

\* The loop of lines 62-65 over the items left after the pop, then the sort.
RECURSIVE EclatSuffixFrom(_, _, _, _)
EclatSuffixFrom(tidset, items, k, min) ==
    IF k > Len(items) THEN <<>>
    ELSE LET inter == Intersection(tidset, items[k][2])
             rest == EclatSuffixFrom(tidset, items, k + 1, min)
         IN  IF AtLeast(Cardinality(inter), min)
             THEN <<<<items[k][1], inter>>>> \o rest
             ELSE rest

EclatSuffix(tidset, items, min) ==
    SortBySize(EclatSuffixFrom(tidset, items, 1, min))

\* frequent_itemsets[frozenset(new_itemset)] = support
Store(fi, new_itemset, support) == (SeqToSet(new_itemset) :> support) @@ fi

\* One pass of the loop over the transactions in the vertical
\* transformation (generate_tidsets, lines 27-29).
ScriptGenerate ==
    /\ pc = "generate"
    /\ script_tid < Len(transactions)
    /\ item_tidset' = AddTokens(item_tidset, transactions[script_tid + 1], script_tid)
    /\ script_tid' = script_tid + 1
    /\ UNCHANGED <<transactions, ratio_num, pc, min_support, eclat_stack,
                   frequent_itemsets, eclat_log, eclat_depth>>
    /\ UNCHANGED minerVars
    /\ UNCHANGED loadVars

\* Lines 80-88: the threshold, the sort of the whole dict, the root call.
\* The ratio, the literal 0.2 of line 80, is an input here.
ScriptMain ==
    /\ pc = "generate"
    /\ script_tid = Len(transactions)
    /\ min_support' = SupportCount(Len(transactions), ratio_num)
    /\ eclat_stack' = <<[prefix |-> <<>>, items |-> SortBySize(item_tidset)]>>
    /\ frequent_itemsets' = <<>>
    /\ eclat_depth' = 1
    /\ pc' = "eclat"
    /\ UNCHANGED <<transactions, ratio_num, item_tidset, script_tid, eclat_log>>
    /\ UNCHANGED minerVars
    /\ UNCHANGED loadVars

\* One pass of the while loop of eclat, up to and including the call of
\* line 67 (the callee's own passes are later steps).
EclatIter ==
    /\ pc = "eclat"
    /\ LET d == Len(eclat_stack)
           top == eclat_stack[d]
       IN  /\ top.items # <<>>
           /\ LET n == Len(top.items)
                  item == top.items[n][1]
                  tidset == top.items[n][2]
                  left == SubSeq(top.items, 1, n - 1)
                  support == Cardinality(tidset)
                  popped == [eclat_stack EXCEPT ![d].items = left]
              IN  IF AtLeast(support, min_support)
                  THEN LET new_itemset == Append(top.prefix, item)
                       IN  /\ frequent_itemsets' =
                                Store(frequent_itemsets, new_itemset, support)
                           /\ eclat_log' = Append(eclat_log, new_itemset)
                           /\ eclat_stack' =
                                Append(popped,
                                       [prefix |-> new_itemset,
                                        items |-> EclatSuffix(tidset, left, min_support)])
                           /\ eclat_depth' = Max({eclat_depth, d + 1})
                  ELSE /\ eclat_stack' = popped
                       /\ UNCHANGED <<frequent_itemsets, eclat_log, eclat_depth>>
    /\ UNCHANGED <<transactions, ratio_num, pc, min_support, item_tidset, script_tid>>
    /\ UNCHANGED minerVars
    /\ UNCHANGED loadVars

\* items is empty: the while loop ends and the call returns.
EclatReturn ==
    /\ pc = "eclat"
    /\ eclat_stack[Len(eclat_stack)].items = <<>>
    /\ eclat_stack' = SubSeq(eclat_stack, 1, Len(eclat_stack) - 1)
    /\ pc' = IF Len(eclat_stack) = 1 THEN "load" ELSE "eclat"
    /\ UNCHANGED <<transactions, ratio_num, min_support, item_tidset, script_tid,
                   frequent_itemsets, eclat_log, eclat_depth>>
    /\ UNCHANGED minerVars
    /\ UNCHANGED loadVars

-----------------------------------------------------------------------------
(* src/eclat_improved.py *)

\* The loop of lines 87-92: the candidates after position i (1-based).
RECURSIVE RecSuffixFrom(_, _, _, _)
RecSuffixFrom(tidset, items, j, min) ==
    IF j > Len(items) THEN <<>>
    ELSE LET inter == tidset \cap items[j][2]
             rest == RecSuffixFrom(tidset, items, j + 1, min)
         IN  IF Cardinality(inter) >= min
             THEN <<<<items[j][1], inter>>>> \o rest
             ELSE rest

\* The inner loop started at 0 (skipping i itself) instead of at i + 1.
RecSuffixAll(items, i, min) ==
    RecSuffixFrom(items[i][2], SubSeq(items, 1, i - 1), 1, min)
        \o RecSuffixFrom(items[i][2], items, i + 1, min)

RecSuffix(items, i, min) == RecSuffixFrom(items[i][2], items, i + 1, min)

\* The test of line 95 left out.
AlwaysRecurse(suffix) == TRUE

\* if suffix:
ShouldRecurse(suffix) == suffix # <<>>

\* One pass of the loop of load_dataset over the lines (lines 43-47), on the
\* tokens of the line; tid is the loop variable.
LoadLine ==
    /\ pc = "load"
    /\ tid + 1 < Len(transactions)
    /\ tid' = tid + 1
    /\ mine_item_tidset' = AddTokens(mine_item_tidset, transactions[tid' + 1], tid')
    /\ UNCHANGED <<transactions, ratio_num, pc, nb_transactions, min_support_count,
                   nb_frequent_itemsets, rec_stack, mine_log, rec_depth,
                   exit_status, mine_result>>
    /\ UNCHANGED scriptVars
    /\ UNCHANGED loadVars

\* After the loop, lines 49-50.  With no line read, tid is unbound (here -1
\* stands for unbound): line 49 raises, the handler of line 61 catches it and
\* the process exits with status 1.
LoadEnd ==
    /\ pc = "load"
    /\ tid + 1 = Len(transactions)
    /\ IF tid = Unbound
       THEN /\ exit_status' = 1
            /\ pc' = "exit"
            /\ UNCHANGED <<nb_transactions, min_support_count>>
       ELSE /\ nb_transactions' = tid + 1
            /\ min_support_count' = SupportCount(nb_transactions', ratio_num)
            /\ pc' = "loaded"
            /\ UNCHANGED exit_status
    /\ UNCHANGED <<transactions, ratio_num, tid, mine_item_tidset,
                   nb_frequent_itemsets, rec_stack, mine_log, rec_depth, mine_result>>
    /\ UNCHANGED scriptVars
    /\ UNCHANGED loadVars

\* The filter left out.
Unfiltered(d, min) == d

\* Lines 125-129: the items that reach the threshold, in dict order.
Frequent1(d, min) == SelectSeq(d, LAMBDA e : Cardinality(e[2]) >= min)

\* Lines 144: the counter starts at the number of frequent 1-itemsets.
InitialCount(frequent_1_itemsets) == Len(frequent_1_itemsets)

\* mine, lines 125-148: filter, sort, count the 1-itemsets, root call.
MineSetup ==
    /\ pc = "loaded"
    /\ LET frequent_1_itemsets == SortBySize(Frequent1(mine_item_tidset, min_support_count))
       IN  /\ nb_frequent_itemsets' = InitialCount(frequent_1_itemsets)
           /\ mine_log' = [k \in 1..InitialCount(frequent_1_itemsets) |->
                              <<frequent_1_itemsets[k][1]>>]
           /\ rec_stack' = <<[prefix |-> <<>>, items |-> frequent_1_itemsets, i |-> 0]>>
    /\ rec_depth' = 1
    /\ pc' = "mining"
    /\ UNCHANGED <<transactions, ratio_num, nb_transactions, min_support_count,
                   tid, mine_item_tidset, exit_status, mine_result>>
    /\ UNCHANGED scriptVars
    /\ UNCHANGED loadVars

\* One pass of the for loop of eclat_recursive, up to and including the call
\* of line 97.  top.i passes are done; this one takes items[top.i + 1].
RecIter ==
    /\ pc = "mining"
    /\ LET d == Len(rec_stack)
           top == rec_stack[d]
       IN  /\ top.i < Len(top.items)
           /\ LET i == top.i + 1
                  item == top.items[i][1]
                  support == Cardinality(top.items[i][2])
                  stepped == [rec_stack EXCEPT ![d].i = i]
              IN  IF support >= min_support_count
                  THEN LET suffix == RecSuffix(top.items, i, min_support_count)
                           new_prefix == Append(top.prefix, item)
                       IN  /\ nb_frequent_itemsets' = nb_frequent_itemsets + 1
                           /\ mine_log' = Append(mine_log, new_prefix)
                           /\ IF ShouldRecurse(suffix)
                              THEN /\ rec_stack' =
                                        Append(stepped,
                                               [prefix |-> new_prefix,
                                                items |-> suffix, i |-> 0])
                                   /\ rec_depth' = Max({rec_depth, d + 1})
                              ELSE /\ rec_stack' = stepped
                                   /\ UNCHANGED rec_depth
                  ELSE /\ rec_stack' = stepped
                       /\ UNCHANGED <<nb_frequent_itemsets, mine_log, rec_depth>>
    /\ UNCHANGED <<transactions, ratio_num, pc, nb_transactions,
                   min_support_count, tid, mine_item_tidset, exit_status, mine_result>>
    /\ UNCHANGED scriptVars
    /\ UNCHANGED loadVars

\* The for loop is over: the call returns; the root's return ends mine,
\* which returns the counter (line 166).
RecReturn ==
    /\ pc = "mining"
    /\ LET d == Len(rec_stack)
       IN  /\ rec_stack[d].i = Len(rec_stack[d].items)
           /\ rec_stack' = SubSeq(rec_stack, 1, d - 1)
           /\ IF d = 1
              THEN /\ pc' = "mine_done"
                   /\ mine_result' = nb_frequent_itemsets
                   /\ exit_status' = 0
              ELSE UNCHANGED <<pc, mine_result, exit_status>>
    /\ UNCHANGED <<transactions, ratio_num, nb_transactions, min_support_count,
                   nb_frequent_itemsets, tid, mine_item_tidset, mine_log, rec_depth>>
    /\ UNCHANGED scriptVars
    /\ UNCHANGED loadVars

-----------------------------------------------------------------------------
(* The mining runs *)

Init ==
    /\ transactions \in Datasets
    /\ ratio_num \in 1..RatioDen
    /\ pc = "generate"
    /\ min_support = 0
    /\ item_tidset = <<>>
    /\ script_tid = 0
    /\ eclat_stack = <<>>
    /\ frequent_itemsets = <<>>
    /\ eclat_log = <<>>
    /\ eclat_depth = 0
    /\ nb_transactions = 0
    /\ min_support_count = 0
    /\ nb_frequent_itemsets = 0
    /\ tid = Unbound
    /\ mine_item_tidset = <<>>
    /\ rec_stack = <<>>
    /\ mine_log = <<>>
    /\ rec_depth = 0
    /\ exit_status = 0 - 1
    /\ mine_result = 0 - 1
    /\ text = <<>>
    /\ script_tidsets = <<>>
    /\ miner_tidsets = <<>>
    /\ lpc = "idle"

Next ==
    \/ ScriptGenerate
    \/ ScriptMain
    \/ EclatIter
    \/ EclatReturn
    \/ LoadLine
    \/ LoadEnd
    \/ MineSetup
    \/ RecIter
    \/ RecReturn

Spec == Init /\ [][Next]_vars

\* Both programs are single-threaded and run to completion: a step that can
\* be taken is taken.
LiveSpec == Spec /\ WF_vars(Next)

-----------------------------------------------------------------------------
(* The two file loaders, on the text of a file *)

NL == "\n"

Chars == {"a", "b", " "}

LineBodies == UNION {[1..n -> Chars] : n \in 0..MaxLineLen}

\* What readlines() and the iteration over a file yield: every line ends with
\* its terminator, but for a last line that the file does not terminate.
Texts ==
    UNION {{[k \in 1..n |-> Append(body[k], NL)] : body \in [1..n -> LineBodies]}
              : n \in 0..MaxLines}
    \cup
    UNION {{[k \in 1..n |-> IF k < n THEN Append(body[k], NL) ELSE body[k]]
              : body \in {b \in [1..n -> LineBodies] : b[n] # <<>>}}
              : n \in 1..MaxLines}

\* str.split(' '): cut at every single space; cur is the token being read.
RECURSIVE SplitSpace(_, _)
SplitSpace(s, cur) ==
    IF s = <<>> THEN <<cur>>
    ELSE IF Head(s) = " "
         THEN <<cur>> \o SplitSpace(Tail(s), <<>>)
         ELSE SplitSpace(Tail(s), Append(cur, Head(s)))

IsSpace(c) == c \in {" ", NL}

\* str.strip()
RECURSIVE LStrip(_)
LStrip(s) == IF s # <<>> /\ IsSpace(Head(s)) THEN LStrip(Tail(s)) ELSE s

RECURSIVE RStrip(_)
RStrip(s) ==
    IF s # <<>> /\ IsSpace(s[Len(s)]) THEN RStrip(SubSeq(s, 1, Len(s) - 1)) ELSE s

Strip(s) == RStrip(LStrip(s))

\* str.split(): cut at runs of whitespace, no empty token.
RECURSIVE SplitWhitespace(_, _)
SplitWhitespace(s, cur) ==
    IF s = <<>> THEN (IF cur = <<>> THEN <<>> ELSE <<cur>>)
    ELSE IF IsSpace(Head(s))
         THEN (IF cur = <<>> THEN <<>> ELSE <<cur>>) \o SplitWhitespace(Tail(s), <<>>)
         ELSE SplitWhitespace(Tail(s), Append(cur, Head(s)))

\* generate_tidsets_from_dataset on the first n lines.
RECURSIVE generate_tidsets_from_dataset(_, _)
generate_tidsets_from_dataset(lines, n) ==
    IF n = 0 THEN <<>>
    ELSE AddTokens(generate_tidsets_from_dataset(lines, n - 1),
                   SplitSpace(lines[n], <<>>), n - 1)

\* The loop of load_dataset on the first n lines; "if item" keeps the
\* non-empty tokens.
RECURSIVE load_dataset(_, _)
load_dataset(lines, n) ==
    IF n = 0 THEN <<>>
    ELSE AddTokens(load_dataset(lines, n - 1),
                   SelectSeq(SplitWhitespace(Strip(lines[n]), <<>>),
                             LAMBDA item : item # <<>>),
                   n - 1)

LoadScript ==
    /\ lpc = "start"
    /\ script_tidsets' = generate_tidsets_from_dataset(text, Len(text))
    /\ lpc' = "script_loaded"
    /\ UNCHANGED <<text, miner_tidsets, transactions, ratio_num, pc>>
    /\ UNCHANGED scriptVars
    /\ UNCHANGED minerVars

\* With no line, line 49 raises on the unbound tid and the process exits.
LoadMiner ==
    /\ lpc = "script_loaded"
    /\ miner_tidsets' = load_dataset(text, Len(text))
    /\ lpc' = IF Len(text) = 0 THEN "exit" ELSE "done"
    /\ UNCHANGED <<text, script_tidsets, transactions, ratio_num, pc>>
    /\ UNCHANGED scriptVars
    /\ UNCHANGED minerVars

LoadInit ==
    /\ text \in Texts
    /\ script_tidsets = <<>>
    /\ miner_tidsets = <<>>
    /\ lpc = "start"
    /\ transactions = <<>>
    /\ ratio_num = 1
    /\ pc = "idle"
    /\ min_support = 0
    /\ item_tidset = <<>>
    /\ script_tid = 0
    /\ eclat_stack = <<>>
    /\ frequent_itemsets = <<>>
    /\ eclat_log = <<>>
    /\ eclat_depth = 0
    /\ nb_transactions = 0
    /\ min_support_count = 0
    /\ nb_frequent_itemsets = 0
    /\ tid = Unbound
    /\ mine_item_tidset = <<>>
    /\ rec_stack = <<>>
    /\ mine_log = <<>>
    /\ rec_depth = 0
    /\ exit_status = 0 - 1
    /\ mine_result = 0 - 1

LoadNext ==
    \/ LoadScript
    \/ LoadMiner

LoadSpec == LoadInit /\ [][LoadNext]_vars

-----------------------------------------------------------------------------
(* Reference notions, computed from the transactions themselves *)

NonEmptyItemsets == (SUBSET Items) \ {{}}

\* The number of transactions that contain every item of S.
NaiveSupport(S) ==
    Cardinality({k \in 1..Len(transactions) : S \subseteq SeqToSet(transactions[k])})

\* The zero-based identifiers of the transactions that contain every item of S.
TidsetOf(S) ==
    {k - 1 : k \in {j \in 1..Len(transactions) : S \subseteq SeqToSet(transactions[j])}}

\* The items that occur in the dataset.
ItemsSeen == UNION {SeqToSet(transactions[k]) : k \in 1..Len(transactions)}

\* How many entries of a log stand for the itemset S.
Records(log, S) == Cardinality({k \in 1..Len(log) : SeqToSet(log[k]) = S})

ScriptDone == pc \notin {"generate", "eclat"}

MinerEnded == pc \in {"mine_done", "exit"}

-----------------------------------------------------------------------------
(* C1: for the same transactions and the same MinSupportCount, the integer  *)
(* returned by mine equals the number of entries of frequent_itemsets.      *)
C1_CrossModeEquivalence ==
    (pc = "mine_done" /\ min_support_count = min_support) =>
        mine_result = Cardinality(DOMAIN frequent_itemsets)

(* C2: with MinSupportCount >= 1, when eclat has returned, frequent_itemsets *)
(* holds exactly the non-empty itemsets whose naive support reaches the      *)
(* threshold, each mapped to that naive support.                             *)
C2_FullCaptureIsReference ==
    (ScriptDone /\ min_support >= 1) =>
        frequent_itemsets =
            [S \in {T \in NonEmptyItemsets : NaiveSupport(T) >= min_support}
                |-> NaiveSupport(S)]

\* A finished run that kept a pair of items sitting exactly on a threshold of
\* 2 and dropped an itemset one transaction short of it.
C2_Witness ==
    /\ ScriptDone
    /\ min_support = 2
    /\ \E S \in DOMAIN frequent_itemsets :
          Cardinality(S) = 2 /\ frequent_itemsets[S] = min_support
    /\ \E T \in NonEmptyItemsets :
          NaiveSupport(T) = min_support - 1 /\ T \notin DOMAIN frequent_itemsets

(* C3: in both variants each frequent itemset (of items of the dataset) is   *)
(* recorded exactly once: one insertion into frequent_itemsets, one unit of  *)
(* nb_frequent_itemsets.                                                     *)
C3_ExactlyOnce ==
    pc = "mine_done" =>
        \A S \in NonEmptyItemsets :
            NaiveSupport(S) >= min_support /\ S \subseteq ItemsSeen =>
                /\ Records(eclat_log, S) = 1
                /\ Records(mine_log, S) = 1

(* C4: at the end of the Full-Capture run every non-empty subset T of a      *)
(* stored itemset S is stored too, with a support at least that of S.        *)
C4_DownwardClosure ==
    ScriptDone =>
        \A S \in DOMAIN frequent_itemsets :
            \A T \in (SUBSET S) \ {{}} :
                /\ T \in DOMAIN frequent_itemsets
                /\ frequent_itemsets[T] >= frequent_itemsets[S]

\* A finished run that stored a 3-itemset one of whose subsets has a strictly
\* larger support.
C4_Witness ==
    /\ ScriptDone
    /\ \E S \in DOMAIN frequent_itemsets :
          /\ Cardinality(S) = 3
          /\ \E T \in (SUBSET S) \ {{}} :
                frequent_itemsets[T] > frequent_itemsets[S]

(* C9: a readable source with zero transactions is not a failure: mine       *)
(* returns 0 with nb_transactions = 0 and min_support_count = 0, and the run *)
(* does not end with exit status 1.                                          *)
C9_EmptyDatasetSucceeds ==
    (Len(transactions) = 0 /\ MinerEnded) =>
        /\ exit_status = 0
        /\ mine_result = 0
        /\ nb_transactions = 0
        /\ min_support_count = 0

(* C10: every itemset recorded by either search is contained in at least one *)
(* transaction, also when the derived MinSupportCount is 0.                  *)
C10_RecordedItemsetsOccur ==
    /\ \A k \in 1..Len(eclat_log) : NaiveSupport(SeqToSet(eclat_log[k])) >= 1
    /\ \A k \in 1..Len(mine_log) : NaiveSupport(SeqToSet(mine_log[k])) >= 1

\* The tokens of a line: its maximal runs of characters other than the space
\* and the line terminator.
LineTokens(line) ==
    {SubSeq(line, i, j) : <<i, j>> \in
        {p \in (1..Len(line)) \X (1..Len(line)) :
            /\ p[1] <= p[2]
            /\ \A k \in p[1]..p[2] : ~IsSpace(line[k])
            /\ (p[1] = 1 \/ IsSpace(line[p[1] - 1]))
            /\ (p[2] = Len(line) \/ IsSpace(line[p[2] + 1]))}}

IsVerticalForm(d) ==
    /\ {d[k][1] : k \in 1..Len(d)} = UNION {LineTokens(text[n]) : n \in 1..Len(text)}
    /\ \A k \in 1..Len(d) :
          d[k][2] = {n - 1 : n \in {m \in 1..Len(text) : d[k][1] \in LineTokens(text[m])}}
    /\ \A k, l \in 1..Len(d) : d[k][1] = d[l][1] => k = l

(* C5: for every text of lines of space-separated tokens, each loader        *)
(* returns a mapping whose keys are exactly the distinct non-blank tokens of *)
(* the text (no empty key, no key carrying the line terminator) and whose    *)
(* value for a key is the set of zero-based indices of the lines holding it. *)
C5_LoadersBuildVerticalForm ==
    /\ lpc \in {"script_loaded", "done", "exit"} => IsVerticalForm(script_tidsets)
    /\ lpc = "done" => IsVerticalForm(miner_tidsets)

\* What holds of load_dataset alone.
C5_MinerLoaderBuildsVerticalForm == lpc = "done" => IsVerticalForm(miner_tidsets)

\* The candidate carries the tidset of prefix + [item].
CandidateIs(prefix, e) == e[2] = TidsetOf(SeqToSet(prefix) \cup {e[1]})

(* C6 as claimed: in every call of eclat and of eclat_recursive, the root    *)
(* call included, every candidate (item, tidset) has |tidset| >=            *)
(* MinSupportCount and tidset = the tidset of prefix + [item].               *)
C6_CandidatesPrefiltered ==
    /\ \A d \in 1..Len(eclat_stack) :
          \A k \in 1..Len(eclat_stack[d].items) :
              /\ Cardinality(eclat_stack[d].items[k][2]) >= min_support
              /\ CandidateIs(eclat_stack[d].prefix, eclat_stack[d].items[k])
    /\ \A d \in 1..Len(rec_stack) :
          \A k \in 1..Len(rec_stack[d].items) :
              /\ Cardinality(rec_stack[d].items[k][2]) >= min_support_count
              /\ CandidateIs(rec_stack[d].prefix, rec_stack[d].items[k])

(* C6 amended: every candidate of every call of both procedures carries the  *)
(* tidset of prefix + [item]; it reaches MinSupportCount in every call of    *)
(* eclat_recursive and in every call of eclat but the root call, whose list  *)
(* is the unfiltered vertical dataset.                                       *)
C6_CandidatesPrefilteredBelowScriptRoot ==
    /\ \A d \in 1..Len(eclat_stack) :
          \A k \in 1..Len(eclat_stack[d].items) :
              /\ d >= 2 => Cardinality(eclat_stack[d].items[k][2]) >= min_support
              /\ CandidateIs(eclat_stack[d].prefix, eclat_stack[d].items[k])
    /\ \A d \in 1..Len(rec_stack) :
          \A k \in 1..Len(rec_stack[d].items) :
              /\ Cardinality(rec_stack[d].items[k][2]) >= min_support_count
              /\ CandidateIs(rec_stack[d].prefix, rec_stack[d].items[k])

\* The miner is in a nested call under a threshold of 2, after the script's
\* root list held an item below the threshold.
C6_Witness ==
    /\ min_support_count = 2
    /\ Len(rec_stack) = 2
    /\ Len(rec_stack[2].items) = 1
    /\ \E x \in ItemsSeen : NaiveSupport({x}) < min_support

\* The ascending-by-tidset-size orderings established at the two roots.
ScriptRoot == SortBySize(item_tidset)

MinerRoot == SortBySize(Frequent1(mine_item_tidset, min_support_count))

Pos(root, item) == CHOOSE k \in 1..Len(root) : root[k][1] = item

Increasing(root, itemset) ==
    \A k \in 1..(Len(itemset) - 1) :
        Pos(root, itemset[k]) < Pos(root, itemset[k + 1])

\* The candidates of call d + 1 come from positions after the one taken in call d.
RecSuffixAfter(d) ==
    /\ rec_stack[d].i >= 1
    /\ rec_stack[d + 1].prefix =
          Append(rec_stack[d].prefix, rec_stack[d].items[rec_stack[d].i][1])
    /\ \A k \in 1..Len(rec_stack[d + 1].items) :
          \E j \in (rec_stack[d].i + 1)..Len(rec_stack[d].items) :
              rec_stack[d].items[j][1] = rec_stack[d + 1].items[k][1]

\* The candidates of call d + 1 are among those left in call d after the pop.
EclatSuffixOfLeft(d) ==
    \A k \in 1..Len(eclat_stack[d + 1].items) :
        /\ \E j \in 1..Len(eclat_stack[d].items) :
              eclat_stack[d].items[j][1] = eclat_stack[d + 1].items[k][1]
        /\ eclat_stack[d + 1].items[k][1] \notin SeqToSet(eclat_stack[d + 1].prefix)

NoRepeat(itemset) == Cardinality(SeqToSet(itemset)) = Len(itemset)

(* C7 as claimed: the suffix built for candidate i holds only candidates at  *)
(* later indices of the call's list, so the items of every recorded itemset  *)
(* are in strictly increasing position of the root ordering.                 *)
C7_CanonicalOrder ==
    /\ \A d \in 1..(Len(rec_stack) - 1) : RecSuffixAfter(d)
    /\ \A k \in 1..Len(mine_log) : Increasing(MinerRoot, mine_log[k])
    /\ \A k \in 1..Len(eclat_log) : Increasing(ScriptRoot, eclat_log[k])

(* C7 amended: in eclat_recursive the suffix holds only candidates at later  *)
(* indices and every recorded itemset is in strictly increasing root         *)
(* position; in eclat, which takes candidates from the end of the list and   *)
(* re-sorts each suffix, the suffix holds only candidates still in the list  *)
(* after the pop, none of them in the prefix, so a recorded itemset never    *)
(* repeats an item (its items need not be in root order).                    *)
C7_CanonicalOrderInMiner ==
    /\ \A d \in 1..(Len(rec_stack) - 1) : RecSuffixAfter(d)
    /\ \A k \in 1..Len(mine_log) : Increasing(MinerRoot, mine_log[k])
    /\ \A d \in 1..(Len(eclat_stack) - 1) : EclatSuffixOfLeft(d)
    /\ \A k \in 1..Len(eclat_log) : NoRepeat(eclat_log[k])

\* The miner has recorded a 3-itemset and the script an itemset whose items
\* are neither in increasing nor in decreasing root position.
C7_Witness ==
    /\ \E k \in 1..Len(mine_log) : Len(mine_log[k]) = 3
    /\ \E k \in 1..Len(eclat_log) :
          /\ Len(eclat_log[k]) = 3
          /\ Pos(ScriptRoot, eclat_log[k][2]) < Pos(ScriptRoot, eclat_log[k][3])
          /\ Pos(ScriptRoot, eclat_log[k][3]) < Pos(ScriptRoot, eclat_log[k][1])

\* The length of the longest itemset of a log, 0 for an empty log.
Longest(log) == Max({0} \cup {Len(log[k]) : k \in 1..Len(log)})

\* The items of the dataset whose own support reaches the threshold min.
FrequentItems(min) == {x \in ItemsSeen : NaiveSupport({x}) >= min}

(* C8 as claimed: the search terminates and the largest number of calls      *)
(* active at once (the root call is depth 1) equals the length of the        *)
(* longest frequent itemset found and is at most the number of distinct      *)
(* frequent items; a nested call is made only for a non-empty suffix.        *)
C8_DepthIsLongestItemset ==
    /\ ScriptDone =>
          /\ eclat_depth = Longest(eclat_log)
          /\ eclat_depth <= Cardinality(FrequentItems(min_support))
    /\ pc = "mine_done" =>
          /\ rec_depth = Longest(mine_log)
          /\ rec_depth <= Cardinality(FrequentItems(min_support_count))

\* The depth each search reaches, against what it recorded.
DepthBounds ==
    /\ \A d \in 2..Len(rec_stack) : rec_stack[d].items # <<>>
    /\ ScriptDone =>
          /\ eclat_depth = Longest(eclat_log) + 1
          /\ eclat_depth <= Cardinality(FrequentItems(min_support)) + 1
    /\ pc = "mine_done" =>
          /\ rec_depth = Max({1, Longest(mine_log)})
          /\ rec_depth <= Max({1, Cardinality(FrequentItems(min_support_count))})

(* C8 amended: both searches terminate.  eclat_recursive makes a nested call *)
(* only for a non-empty suffix, and its largest depth is the length of the   *)
(* longest itemset it recorded, or 1 (the root call) when it recorded none,  *)
(* and at most max(1, number of frequent items).  eclat makes the nested     *)
(* call for every itemset it stores, empty suffix or not, so its largest     *)
(* depth is one more than the length of the longest stored itemset, and at   *)
(* most the number of frequent items plus one.                               *)
C8_TerminatesWithinDepth == <>MinerEnded /\ []DepthBounds

\* Both searches are over, the miner's having gone three calls deep and the
\* script's four.
C8_Witness ==
    /\ pc = "mine_done"
    /\ rec_depth = 3
    /\ eclat_depth = 4

=============================================================================
